---- MODULE Spec2Model ----
(***************************************************************************)
(* CLEAR Dashboard: the two Streamlit scripts clear_dashboard.py and       *)
(* app_sano.py.  A Streamlit script is re-executed from its first line on  *)
(* every user interaction; the session keeps st.session_state, the widget  *)
(* values and the st.cache_data cache between executions.                  *)
(*                                                                         *)
(* Numbers: the scripts compute on float64.  The model uses decimal        *)
(* fixed-point integers in units of 1/10000; on the values enumerated      *)
(* below every product and quotient the scripts form is exact in that      *)
(* unit, so no rounding is modelled.  The label "Carbon Tax (EUR)" stands  *)
(* for the script's label with the euro sign.                              *)
(***************************************************************************)
EXTENDS Integers, Sequences, FiniteSets, TLC

(* ---------------------------------------------------------------------- *)
(* What the latest execution of the script produced                        *)
(* ---------------------------------------------------------------------- *)
VARIABLE run

(* ---------------------------------------------------------------------- *)
(* Bounds                                                                  *)
(* ---------------------------------------------------------------------- *)
\* largest number of data rows in an enumerated CSV file
MaxRows == 2
\* the logistics value of an enumerated row is 0..MaxLevel times 5 kg
MaxLevel == 1

\* fixed-point unit: the integer n stands for n / 10000, so x kg is Kg(x)
Kg(x) == x * 10000

(* ---------------------------------------------------------------------- *)
(* Column labels                                                           *)
(* ---------------------------------------------------------------------- *)
PRODUCT_NAME == "Product Name"
RAW_MATERIAL == "Raw Material (kg CO2)"
PRODUCTION == "Production (kg CO2)"
LOGISTICS == "Logistics (kg CO2)"
TOTAL_KG == "Total Carbon Footprint (kg CO2)"
TOTAL_TONS == "Total Carbon Footprint (tons)"
CARBON_TAX == "Carbon Tax (EUR)"

RequiredColumns == <<PRODUCT_NAME, RAW_MATERIAL, PRODUCTION, LOGISTICS, TOTAL_KG>>
StageColumns == <<RAW_MATERIAL, PRODUCTION, LOGISTICS>>

(* ---------------------------------------------------------------------- *)
(* pandas values.  A numeric cell is [nan, v]; NaN is the missing value.   *)
(* A Series is [dtype, cells]: "float64" cells are numeric cells,          *)
(* "object" cells are strings.  A DataFrame is [columns, nrows, series].   *)
(* ---------------------------------------------------------------------- *)
Num(x) == [nan |-> FALSE, v |-> x]
NaN == [nan |-> TRUE, v |-> 0]

Range(s) == {s[i] : i \in DOMAIN s}

\* a local assignment: v is evaluated once and F applied to its value
With(v, F(_)) == CHOOSE y \in {F(x) : x \in {v}} : TRUE

\* pd.DataFrame(): no columns, no rows
EmptyFrame == [columns |-> <<>>, nrows |-> 0, series |-> [c \in {} |-> 0]]

\* variant: emptiness judged by the columns alone
IsEmptyNoColumns(df) == Len(df.columns) = 0

\* DataFrame.empty: True when any axis has length 0
IsEmpty(df) == Len(df.columns) = 0 \/ df.nrows = 0

HasColumn(df, c) == c \in Range(df.columns)

\* df[c] = s : replaces the column when it exists, appends it otherwise
SetColumn(df, c, s) ==
  [columns |-> IF HasColumn(df, c) THEN df.columns ELSE Append(df.columns, c),
   nrows |-> df.nrows,
   series |-> [k \in (DOMAIN df.series) \cup {c} |-> IF k = c THEN s ELSE df.series[k]]]

\* df[[c1, ..., cn]] : the listed columns in the listed order
SelectColumns(df, cs) ==
  [columns |-> cs,
   nrows |-> df.nrows,
   series |-> [k \in Range(cs) |-> df.series[k]]]

\* DataFrame.copy(): an independent frame with the same content
Copy(df) == df

\* float * float and float / float on cells; NaN propagates
CellMul(a, num, den) == IF a.nan THEN NaN ELSE Num((a.v * num) \div den)
CellAdd(a, b) == IF a.nan \/ b.nan THEN NaN ELSE Num(a.v + b.v)

\* Series * k with k = num/den (a Python float or int)
SeriesMul(s, num, den) ==
  [dtype |-> "float64", cells |-> [i \in DOMAIN s.cells |-> CellMul(s.cells[i], num, den)]]

SeriesAdd(s, t) ==
  [dtype |-> "float64", cells |-> [i \in DOMAIN s.cells |-> CellAdd(s.cells[i], t.cells[i])]]

\* Series.sum(): skipna=True, the sum of the non-missing cells, 0 for none
RECURSIVE SumCells(_, _)
SumCells(cells, n) ==
  IF n = 0 THEN 0
  ELSE (IF cells[n].nan THEN 0 ELSE cells[n].v) + SumCells(cells, n - 1)

SeriesSum(s) == SumCells(s.cells, Len(s.cells))

(* ---------------------------------------------------------------------- *)
(* Exceptions.  A step yields [exc, df]; exc = "none" when it completed.   *)
(* An exception that no try block catches ends the script run.             *)
(* ---------------------------------------------------------------------- *)
Ok(df) == [exc |-> "none", df |-> df]
Raise(e, df) == [exc |-> e, df |-> df]

\* df[c] *= num/den
MulColumn(df, c, num, den) ==
  IF ~HasColumn(df, c) THEN Raise("KeyError", df)
  ELSE IF df.series[c].dtype = "object" THEN Raise("TypeError", df)
  ELSE Ok(SetColumn(df, c, SeriesMul(df.series[c], num, den)))

\* variant: the Air and Sea factors exchanged
AdjustLogisticsSwapped(df, transport_type) ==
  IF transport_type = "Air" THEN MulColumn(df, LOGISTICS, 8, 10)
  ELSE IF transport_type = "Sea" THEN MulColumn(df, LOGISTICS, 15, 10)
  ELSE Ok(df)

\* if transport_type == "Air": *= 1.5  elif "Sea": *= 0.8  (Road: no branch)
AdjustLogistics(df, transport_type) ==
  IF transport_type = "Air" THEN MulColumn(df, LOGISTICS, 15, 10)
  ELSE IF transport_type = "Sea" THEN MulColumn(df, LOGISTICS, 8, 10)
  ELSE Ok(df)

\* if energy_source == "Renewable": *= 0.7  else: *= 1.2
AdjustProduction(df, energy_source) ==
  IF energy_source = "Renewable" THEN MulColumn(df, PRODUCTION, 7, 10)
  ELSE MulColumn(df, PRODUCTION, 12, 10)

\* df[TOTAL_KG] = df[RAW_MATERIAL] + df[PRODUCTION] + df[LOGISTICS],
\* evaluated left to right
UpdateTotal(df) ==
  IF ~HasColumn(df, RAW_MATERIAL) \/ ~HasColumn(df, PRODUCTION) THEN Raise("KeyError", df)
  ELSE IF df.series[RAW_MATERIAL].dtype = "object" \/ df.series[PRODUCTION].dtype = "object"
    THEN Raise("TypeError", df)
  ELSE IF ~HasColumn(df, LOGISTICS) THEN Raise("KeyError", df)
  ELSE IF df.series[LOGISTICS].dtype = "object" THEN Raise("TypeError", df)
  ELSE Ok(SetColumn(df, TOTAL_KG,
            SeriesAdd(SeriesAdd(df.series[RAW_MATERIAL], df.series[PRODUCTION]),
                      df.series[LOGISTICS])))

\* variant: the factors are applied to the frame the previous
\* recomputation left behind instead of a copy of data
AdjustCumulative(data, transport_type, energy_source) ==
  With(IF run.adjusted_data # <<>> THEN run.adjusted_data[1] ELSE data, LAMBDA a0 :
  With(AdjustLogistics(a0, transport_type), LAMBDA a1 :
  With(IF a1.exc = "none" THEN AdjustProduction(a1.df, energy_source) ELSE a1, LAMBDA a2 :
  IF a2.exc = "none" THEN UpdateTotal(a2.df) ELSE a2)))

\* the adjustment block of the Environmental Analysis tab
Adjust(data, transport_type, energy_source) ==
  With(Copy(data), LAMBDA a0 :
  With(AdjustLogistics(a0, transport_type), LAMBDA a1 :
  With(IF a1.exc = "none" THEN AdjustProduction(a1.df, energy_source) ELSE a1, LAMBDA a2 :
  IF a2.exc = "none" THEN UpdateTotal(a2.df) ELSE a2)))

\* DataFrame.melt(id_vars=PRODUCT_NAME, value_vars=StageColumns): one
\* (product, category, value) triple per row and stage, stage by stage
Melt(df) ==
  [k \in 1..(Len(StageColumns) * df.nrows) |->
     LET c == StageColumns[((k - 1) \div df.nrows) + 1]
         i == ((k - 1) % df.nrows) + 1
     IN <<df.series[PRODUCT_NAME].cells[i], c, df.series[c].cells[i]>>]

\* the (x, y) pairs a px.bar call plots
BarPairs(df, x, y) ==
  [i \in 1..df.nrows |-> <<df.series[x].cells[i], df.series[y].cells[i]>>]

NoOutput == <<>>
Some(x) == <<x>>

\* variant: the exported share scales the logistics column
EnvironmentalAnalysisExport(data, transport_type, energy_source, export_ratio) ==
  With(Adjust(data, transport_type, energy_source), LAMBDA a :
  With(IF a.exc = "none" THEN MulColumn(a.df, LOGISTICS, export_ratio, 100) ELSE a, LAMBDA x :
  With(IF x.exc = "none" THEN UpdateTotal(x.df) ELSE x, LAMBDA b :
  LET shows == b.exc = "none" /\ HasColumn(b.df, PRODUCT_NAME)
  IN [exc |-> IF b.exc # "none" THEN b.exc ELSE IF shows THEN "none" ELSE "KeyError",
      adjusted_data |-> IF b.exc = "none" THEN Some(b.df) ELSE NoOutput,
      table |-> IF shows THEN Some(SelectColumns(b.df, RequiredColumns)) ELSE NoOutput,
      pie_chart |-> IF shows THEN Some(Melt(b.df)) ELSE NoOutput,
      bar_chart |-> IF shows THEN Some(BarPairs(b.df, PRODUCT_NAME, TOTAL_KG)) ELSE NoOutput])))

\* The Environmental Analysis tab.  export_ratio is read from its slider
\* and used by no statement.
EnvironmentalAnalysis(data, transport_type, energy_source, export_ratio) ==
  With(Adjust(data, transport_type, energy_source), LAMBDA a :
  LET shows == a.exc = "none" /\ HasColumn(a.df, PRODUCT_NAME)
  IN [exc |-> IF a.exc # "none" THEN a.exc ELSE IF shows THEN "none" ELSE "KeyError",
      adjusted_data |-> IF a.exc = "none" THEN Some(a.df) ELSE NoOutput,
      table |-> IF shows THEN Some(SelectColumns(a.df, RequiredColumns)) ELSE NoOutput,
      pie_chart |-> IF shows THEN Some(Melt(a.df)) ELSE NoOutput,
      bar_chart |-> IF shows THEN Some(BarPairs(a.df, PRODUCT_NAME, TOTAL_KG)) ELSE NoOutput])

\* kilograms per metric ton
KgPerTon == 1000

\* df[dst] = df[src] * num/den
DeriveColumn(df, dst, src, num, den) ==
  IF ~HasColumn(df, src) THEN Raise("KeyError", df)
  ELSE IF df.series[src].dtype = "object" THEN Raise("TypeError", df)
  ELSE Ok(SetColumn(df, dst, SeriesMul(df.series[src], num, den)))

\* variant: the tax total is computed on its own path, from kilograms
FinancialAnalysisSeparateTotals(data, carbon_tax_rate) ==
  With(DeriveColumn(data, TOTAL_TONS, TOTAL_KG, 1, KgPerTon), LAMBDA d1 :
  With(IF d1.exc = "none"
       THEN DeriveColumn(d1.df, CARBON_TAX, TOTAL_TONS, carbon_tax_rate, 1)
       ELSE d1, LAMBDA d2 :
  LET computed == d2.exc = "none"
      shows == computed /\ HasColumn(d2.df, PRODUCT_NAME)
  IN [exc |-> IF ~computed THEN d2.exc ELSE IF shows THEN "none" ELSE "KeyError",
      data |-> d2.df,
      total_emissions |-> IF computed THEN Some(SeriesSum(d2.df.series[TOTAL_TONS])) ELSE NoOutput,
      total_tax_cost |-> IF computed
                         THEN Some(SeriesSum(d2.df.series[TOTAL_KG]) * carbon_tax_rate)
                         ELSE NoOutput,
      table |-> IF shows
                THEN Some(SelectColumns(d2.df, <<PRODUCT_NAME, TOTAL_TONS, CARBON_TAX>>))
                ELSE NoOutput,
      bar_chart |-> IF shows THEN Some(BarPairs(d2.df, PRODUCT_NAME, CARBON_TAX)) ELSE NoOutput]))

\* The Financial Analysis tab: the two columns are assigned on data itself.
FinancialAnalysis(data, carbon_tax_rate) ==
  With(DeriveColumn(data, TOTAL_TONS, TOTAL_KG, 1, KgPerTon), LAMBDA d1 :
  With(IF d1.exc = "none"
       THEN DeriveColumn(d1.df, CARBON_TAX, TOTAL_TONS, carbon_tax_rate, 1)
       ELSE d1, LAMBDA d2 :
  LET computed == d2.exc = "none"
      shows == computed /\ HasColumn(d2.df, PRODUCT_NAME)
  IN [exc |-> IF ~computed THEN d2.exc ELSE IF shows THEN "none" ELSE "KeyError",
      data |-> d2.df,
      total_emissions |-> IF computed THEN Some(SeriesSum(d2.df.series[TOTAL_TONS])) ELSE NoOutput,
      total_tax_cost |-> IF computed THEN Some(SeriesSum(d2.df.series[CARBON_TAX])) ELSE NoOutput,
      table |-> IF shows
                THEN Some(SelectColumns(d2.df, <<PRODUCT_NAME, TOTAL_TONS, CARBON_TAX>>))
                ELSE NoOutput,
      bar_chart |-> IF shows THEN Some(BarPairs(d2.df, PRODUCT_NAME, CARBON_TAX)) ELSE NoOutput]))

(* ---------------------------------------------------------------------- *)
(* CSV files.  A file is missing, unparseable, or parses to a frame.       *)
(* ---------------------------------------------------------------------- *)
ProductNames == <<"Product A", "Product B", "Product C", "Product D">>

\* the stage values a row of a file may hold
RowValues ==
  [raw : {Kg(10)},
   production : {Kg(20)},
   logistics : {Kg(5) * c : c \in 0..MaxLevel}]

\* The total column is authored in the file.  A file states it
\* consistently (skew 0) or overstates the total of its first row.
Skews == {0, Kg(7)}

\* pd.read_csv on a well-formed file with the five required columns
MakeFrame(rows, skew) ==
  [columns |-> RequiredColumns,
   nrows |-> Len(rows),
   series |-> [c \in Range(RequiredColumns) |->
     IF c = PRODUCT_NAME
     THEN [dtype |-> "object", cells |-> [i \in DOMAIN rows |-> ProductNames[i]]]
     ELSE [dtype |-> "float64", cells |-> [i \in DOMAIN rows |->
       CASE c = RAW_MATERIAL -> Num(rows[i].raw)
         [] c = PRODUCTION -> Num(rows[i].production)
         [] c = LOGISTICS -> Num(rows[i].logistics)
         [] OTHER -> Num(rows[i].raw + rows[i].production + rows[i].logistics
                         + (IF i = 1 THEN skew ELSE 0))]]]]

\* a file without column c
DropColumn(df, c) ==
  [columns |-> SelectSeq(df.columns, LAMBDA k : k # c),
   nrows |-> df.nrows,
   series |-> [k \in (DOMAIN df.series) \ {c} |-> df.series[k]]]

\* a file whose first row has an empty field in column c: read as NaN
WithMissingValue(df, c) ==
  [df EXCEPT !.series[c] = [dtype |-> "float64",
                            cells |-> [@.cells EXCEPT ![1] = NaN]]]

\* a file with text in column c: the column is read as strings
WithText(df, c) ==
  [df EXCEPT !.series[c] = [dtype |-> "object",
                            cells |-> [i \in DOMAIN @.cells |-> "abc"]]]

NumericColumns == <<RAW_MATERIAL, PRODUCTION, LOGISTICS, TOTAL_KG>>

\* the row of the documented scenario: Raw 10, Production 20, Logistics 5
SampleFrame ==
  MakeFrame(<<[raw |-> Kg(10), production |-> Kg(20), logistics |-> Kg(5)]>>, 0)

WellFormedFrames ==
  UNION {{MakeFrame(rows, skew) : rows \in [1..n -> RowValues], skew \in Skews} :
           n \in 0..MaxRows}

SchemaDefectFrames ==
  {DropColumn(SampleFrame, c) : c \in Range(RequiredColumns)}
  \cup {WithMissingValue(SampleFrame, c) : c \in Range(NumericColumns)}
  \cup {WithText(SampleFrame, c) : c \in Range(NumericColumns)}

Parsed(df) == [kind |-> "parsed", frame |-> df]
Missing == [kind |-> "missing", frame |-> EmptyFrame]
Unparseable == [kind |-> "unparseable", frame |-> EmptyFrame]

\* what sano_lca_products.csv may be on disk
DefaultFiles ==
  {Missing, Unparseable} \cup {Parsed(df) : df \in WellFormedFrames \cup SchemaDefectFrames}

UploadFrame ==
  MakeFrame(<<[raw |-> Kg(10), production |-> Kg(20), logistics |-> 0],
              [raw |-> Kg(10), production |-> 0, logistics |-> Kg(5)]>>, Kg(7))

\* what the user may upload
UploadedFiles == {Unparseable, Parsed(MakeFrame(<<>>, 0)), Parsed(UploadFrame)}

\* pd.read_csv: the frame, or the exception it raises
ReadCsv(file) ==
  CASE file.kind = "missing" -> Raise("FileNotFoundError", EmptyFrame)
    [] file.kind = "unparseable" -> Raise("ParserError", EmptyFrame)
    [] OTHER -> Ok(file.frame)

\* load_data: FileNotFoundError is caught, reported, and an empty frame
\* returned; any other exception leaves the function
load_data(file) ==
  With(ReadCsv(file), LAMBDA r :
    IF r.exc = "FileNotFoundError"
    THEN [exc |-> "none", df |-> EmptyFrame, errors |-> {"File not found"}]
    ELSE [exc |-> r.exc, df |-> r.df, errors |-> {}])

\* process_uploaded_data: every exception is caught and reported
process_uploaded_data(file) ==
  With(ReadCsv(file), LAMBDA r :
    IF r.exc # "none"
    THEN [exc |-> "none", df |-> EmptyFrame, errors |-> {"Error reading file"}]
    ELSE [exc |-> "none", df |-> r.df, errors |-> {}])

(* ---------------------------------------------------------------------- *)
(* st.cache_data: the first completed call for an argument stores the      *)
(* returned value together with the messages the call displayed; every     *)
(* call returns a copy of the stored value and replays the messages.  A    *)
(* call that raises stores nothing.                                        *)
(* ---------------------------------------------------------------------- *)
EmptyCache == [load_data |-> NoOutput, process_uploaded_data |-> [f \in {} |-> 0]]

CachedLoadData(c, file) ==
  IF c.load_data # NoOutput
  THEN [exc |-> "none", df |-> Copy(c.load_data[1].df),
        errors |-> c.load_data[1].errors, cache |-> c]
  ELSE With(load_data(file), LAMBDA r :
         [exc |-> r.exc, df |-> r.df, errors |-> r.errors,
          cache |-> IF r.exc = "none"
                    THEN [c EXCEPT !.load_data = Some([df |-> r.df, errors |-> r.errors])]
                    ELSE c])

CachedProcessUploadedData(c, file) ==
  IF file \in DOMAIN c.process_uploaded_data
  THEN [exc |-> "none", df |-> Copy(c.process_uploaded_data[file].df),
        errors |-> c.process_uploaded_data[file].errors, cache |-> c]
  ELSE With(process_uploaded_data(file), LAMBDA r :
         [exc |-> r.exc, df |-> r.df, errors |-> r.errors,
          cache |-> [c EXCEPT !.process_uploaded_data =
                       [f \in (DOMAIN @) \cup {file} |->
                          IF f = file THEN [df |-> r.df, errors |-> r.errors] ELSE @[f]]]])

(* ---------------------------------------------------------------------- *)
(* Widgets                                                                 *)
(* ---------------------------------------------------------------------- *)
Tabs == <<"Environmental Analysis", "Financial Analysis", "Regulatory Compliance">>
TransportTypes == <<"Air", "Road", "Sea">>
EnergySources == <<"Renewable", "Non-renewable">>

ExportMin == 0
ExportMax == 100
ExportDefault == 20
\* the slider positions the model tries
ExportRatios == {ExportMin, ExportDefault, ExportMax}

TaxMin == 10
TaxMax == 100
TaxStep == 5
TaxDefault == 25
\* every position of the tax slider
TaxSliderPositions == {r \in TaxMin..TaxMax : (r - TaxMin) % TaxStep = 0}
\* the slider positions the model tries
TaxRates == {r \in TaxSliderPositions :
               r \in {TaxMin, TaxDefault, TaxDefault + TaxStep, TaxMax}}

\* the regulations table of the Regulatory Compliance tab: (region, exposure)
Regulations ==
  <<<<"European Union", 10>>, <<"United States", 7>>, <<"European Union", 9>>,
    <<"International", 6>>, <<"United States", 5>>>>

\* the result of one execution of the script; button is what the
\* st.button call returned, FALSE when the call was not reached
BlankRun ==
  [outcome |-> "none", view |-> "none", start_at_check |-> NoOutput, button |-> FALSE,
   loaded |-> NoOutput, data |-> NoOutput, errors |-> {}, widgets |-> {},
   adjusted_data |-> NoOutput, env_table |-> NoOutput, pie_chart |-> NoOutput,
   bar_chart |-> NoOutput, total_emissions |-> NoOutput, total_tax_cost |-> NoOutput,
   cost_table |-> NoOutput, cost_chart |-> NoOutput, regulations |-> NoOutput]

\* the selected tab's block, run on the loaded frame
RunView(app, r0, w) ==
  IF w.selected_tab = "Environmental Analysis" THEN
    With(EnvironmentalAnalysis(r0.data[1], w.transport_type, w.energy_source,
                               w.export_ratio), LAMBDA e :
      [r0 EXCEPT !.outcome = IF e.exc = "none" THEN "rendered" ELSE "exception",
                 !.errors = IF e.exc = "none" THEN @ ELSE @ \cup {e.exc},
                 !.view = w.selected_tab,
                 !.widgets = @ \cup {"transport", "energy", "export"},
                 !.adjusted_data = e.adjusted_data,
                 !.env_table = e.table,
                 !.pie_chart = e.pie_chart,
                 !.bar_chart = e.bar_chart])
  ELSE IF w.selected_tab = "Financial Analysis" THEN
    With(FinancialAnalysis(r0.data[1], w.carbon_tax_rate), LAMBDA f :
      [r0 EXCEPT !.outcome = IF f.exc = "none" THEN "rendered" ELSE "exception",
                 !.errors = IF f.exc = "none" THEN @ ELSE @ \cup {f.exc},
                 !.view = w.selected_tab,
                 !.widgets = @ \cup {"tax"},
                 !.data = Some(f.data),
                 !.total_emissions = f.total_emissions,
                 !.total_tax_cost = f.total_tax_cost,
                 !.cost_table = f.table,
                 !.cost_chart = f.bar_chart])
  ELSE
    [r0 EXCEPT !.outcome = "rendered",
               !.view = w.selected_tab,
               !.regulations = IF app = "clear_dashboard" THEN Some(Regulations)
                               ELSE NoOutput]

\* the script from the data load to the footer
Dashboard(app, file, c, r0, w) ==
  With(IF app = "clear_dashboard" /\ w.data_file # NoOutput
       THEN CachedProcessUploadedData(c, w.data_file[1])
       ELSE CachedLoadData(c, file), LAMBDA l :
  With([r0 EXCEPT !.widgets = IF app = "clear_dashboard" THEN {"uploader"} ELSE {},
                  !.errors = l.errors], LAMBDA r1 :
    IF l.exc # "none" THEN
      [cache |-> l.cache,
       run |-> [r1 EXCEPT !.outcome = "exception", !.errors = @ \cup {l.exc}]]
    ELSE IF IsEmpty(l.df) THEN
      [cache |-> l.cache,
       run |-> [r1 EXCEPT !.outcome = "DataUnavailable",
                          !.loaded = Some(l.df), !.data = Some(l.df),
                          !.errors = @ \cup {"Dataset could not be loaded"}]]
    ELSE
      With([r1 EXCEPT !.loaded = Some(l.df), !.data = Some(l.df),
                      !.widgets = @ \cup {"radio"}], LAMBDA r2 :
        [cache |-> l.cache, run |-> RunView(app, r2, w)])))

\* variant: the landing block does not stop the run in which the button
\* is clicked
ScriptNoStop(app, file, ss, c, w, button) ==
  IF app = "app_sano" THEN
    With(Dashboard(app, file, c, BlankRun, w), LAMBDA d :
      [session_state |-> ss, cache |-> d.cache, run |-> d.run])
  ELSE
    With(IF "start" \in DOMAIN ss THEN ss ELSE [k \in {"start"} |-> FALSE], LAMBDA ss1 :
    With(IF button THEN [ss1 EXCEPT !["start"] = TRUE] ELSE ss1, LAMBDA ss2 :
    With([BlankRun EXCEPT !.start_at_check = Some(ss1["start"]), !.button = button],
         LAMBDA r0 :
      IF ~ss2["start"] THEN
        [session_state |-> ss2,
         cache |-> c,
         run |-> [r0 EXCEPT !.outcome = "landing", !.widgets = {"start_button"}]]
      ELSE
        With(Dashboard(app, file, c, r0, w), LAMBDA d :
          [session_state |-> ss2, cache |-> d.cache, run |-> d.run]))))

\* one execution of clear_dashboard.py or app_sano.py
Script(app, file, ss, c, w, button) ==
  IF app = "app_sano" THEN
    With(Dashboard(app, file, c, BlankRun, w), LAMBDA d :
      [session_state |-> ss, cache |-> d.cache, run |-> d.run])
  ELSE
    With(IF "start" \in DOMAIN ss THEN ss ELSE [k \in {"start"} |-> FALSE], LAMBDA ss1 :
    With([BlankRun EXCEPT !.start_at_check = Some(ss1["start"])], LAMBDA r0 :
      IF ~ss1["start"] THEN
        [session_state |-> IF button THEN [ss1 EXCEPT !["start"] = TRUE] ELSE ss1,
         cache |-> c,
         run |-> [r0 EXCEPT !.outcome = "landing", !.widgets = {"start_button"},
                            !.button = button]]
      ELSE
        With(Dashboard(app, file, c, r0, w), LAMBDA d :
          [session_state |-> ss1, cache |-> d.cache, run |-> d.run])))

(* ---------------------------------------------------------------------- *)
(* The session                                                             *)
(* ---------------------------------------------------------------------- *)
VARIABLES
  app,              \* which script the session runs
  default_file,     \* sano_lca_products.csv on disk
  session_state,    \* st.session_state
  cache,            \* the st.cache_data store
  data_file,        \* the file_uploader's value
  selected_tab,     \* the navigation radio's value
  transport_type,   \* the "transport" selectbox
  energy_source,    \* the "energy" selectbox
  export_ratio,     \* the "export" slider
  carbon_tax_rate   \* the tax slider

vars == <<app, default_file, session_state, cache, data_file, selected_tab,
          transport_type, energy_source, export_ratio, carbon_tax_rate, run>>

Apps == {"clear_dashboard", "app_sano"}

\* the values the widgets hold now
Widgets ==
  [data_file |-> data_file, selected_tab |-> selected_tab,
   transport_type |-> transport_type, energy_source |-> energy_source,
   export_ratio |-> export_ratio, carbon_tax_rate |-> carbon_tax_rate]

\* the value a widget shows when it is first rendered
WidgetDefaults ==
  [data_file |-> NoOutput, selected_tab |-> Tabs[1],
   transport_type |-> TransportTypes[1], energy_source |-> EnergySources[1],
   export_ratio |-> ExportDefault, carbon_tax_rate |-> TaxDefault]

Init ==
  /\ app \in Apps
  /\ default_file \in DefaultFiles
  /\ session_state = [k \in {} |-> FALSE]
  /\ cache = EmptyCache
  /\ data_file = WidgetDefaults.data_file
  /\ selected_tab = WidgetDefaults.selected_tab
  /\ transport_type = WidgetDefaults.transport_type
  /\ energy_source = WidgetDefaults.energy_source
  /\ export_ratio = WidgetDefaults.export_ratio
  /\ carbon_tax_rate = WidgetDefaults.carbon_tax_rate
  /\ run = BlankRun

\* One execution of the script with widget values w.  A widget that the
\* execution does not render loses its value.
Execute(w, button) ==
  \E r \in {Script(app, default_file, session_state, cache, w, button)} :
  LET keep(name, value, default) == IF name \in r.run.widgets THEN value ELSE default
  IN /\ session_state' = r.session_state
     /\ cache' = r.cache
     /\ run' = r.run
     /\ data_file' = keep("uploader", w.data_file, WidgetDefaults.data_file)
     /\ selected_tab' = keep("radio", w.selected_tab, WidgetDefaults.selected_tab)
     /\ transport_type' = keep("transport", w.transport_type, WidgetDefaults.transport_type)
     /\ energy_source' = keep("energy", w.energy_source, WidgetDefaults.energy_source)
     /\ export_ratio' = keep("export", w.export_ratio, WidgetDefaults.export_ratio)
     /\ carbon_tax_rate' = keep("tax", w.carbon_tax_rate, WidgetDefaults.carbon_tax_rate)
     /\ UNCHANGED <<app, default_file>>

\* the browser opens the page: the first execution
Open ==
  /\ run.outcome = "none"
  /\ Execute(Widgets, FALSE)

\* the user reruns the page without touching a widget
Rerun ==
  /\ run.outcome # "none"
  /\ Execute(Widgets, FALSE)

\* the user clicks "Let's Get Started"
ClickStart ==
  /\ "start_button" \in run.widgets
  /\ Execute(Widgets, TRUE)

UploadFile ==
  /\ "uploader" \in run.widgets
  /\ \E f \in UploadedFiles :
       /\ data_file # Some(f)
       /\ Execute([Widgets EXCEPT !.data_file = Some(f)], FALSE)

RemoveUpload ==
  /\ "uploader" \in run.widgets
  /\ data_file # NoOutput
  /\ Execute([Widgets EXCEPT !.data_file = NoOutput], FALSE)

SelectTab ==
  /\ "radio" \in run.widgets
  /\ \E t \in Range(Tabs) :
       /\ t # selected_tab
       /\ Execute([Widgets EXCEPT !.selected_tab = t], FALSE)

SelectTransport ==
  /\ "transport" \in run.widgets
  /\ \E t \in Range(TransportTypes) :
       /\ t # transport_type
       /\ Execute([Widgets EXCEPT !.transport_type = t], FALSE)

SelectEnergy ==
  /\ "energy" \in run.widgets
  /\ \E e \in Range(EnergySources) :
       /\ e # energy_source
       /\ Execute([Widgets EXCEPT !.energy_source = e], FALSE)

SetExportRatio ==
  /\ "export" \in run.widgets
  /\ \E x \in ExportRatios :
       /\ x # export_ratio
       /\ Execute([Widgets EXCEPT !.export_ratio = x], FALSE)

SetTaxRate ==
  /\ "tax" \in run.widgets
  /\ \E x \in TaxRates :
       /\ x # carbon_tax_rate
       /\ Execute([Widgets EXCEPT !.carbon_tax_rate = x], FALSE)

Next ==
  \/ Open
  \/ Rerun
  \/ ClickStart
  \/ UploadFile
  \/ RemoveUpload
  \/ SelectTab
  \/ SelectTransport
  \/ SelectEnergy
  \/ SetExportRatio
  \/ SetTaxRate

Spec == Init /\ [][Next]_vars

(* ---------------------------------------------------------------------- *)
(* The calculators as functions: the inputs are drawn freely, a tax rate   *)
(* below the slider's range included, and the selected tab's block is      *)
(* applied once to the table.                                              *)
(* ---------------------------------------------------------------------- *)
CalcRates == {-TaxDefault, -TaxStep, 0} \cup TaxRates

CalcInit ==
  /\ app \in Apps
  /\ default_file \in {Parsed(df) : df \in WellFormedFrames}
  /\ session_state = [k \in {} |-> FALSE]
  /\ cache = EmptyCache
  /\ data_file = NoOutput
  /\ selected_tab \in {Tabs[1], Tabs[2]}
  /\ transport_type \in Range(TransportTypes)
  /\ energy_source \in Range(EnergySources)
  /\ export_ratio = ExportDefault
  /\ carbon_tax_rate \in IF selected_tab = Tabs[2] THEN CalcRates ELSE {TaxDefault}
  /\ run = BlankRun

CalcApply ==
  /\ run.outcome = "none"
  /\ run' = RunView(app, [BlankRun EXCEPT !.loaded = Some(default_file.frame),
                                          !.data = Some(default_file.frame)], Widgets)
  /\ UNCHANGED <<app, default_file, session_state, cache, data_file, selected_tab,
                 transport_type, energy_source, export_ratio, carbon_tax_rate>>

CalcNext == CalcApply

CalcSpec == CalcInit /\ [][CalcNext]_vars

(* ---------------------------------------------------------------------- *)
(* Properties                                                              *)
(* ---------------------------------------------------------------------- *)
ENV == "Environmental Analysis"
FIN == "Financial Analysis"

\* the file the latest execution read its table from
SourceFile ==
  IF app = "clear_dashboard" /\ data_file # NoOutput THEN data_file[1] ELSE default_file

\* no view produced anything in the latest execution
NoViewOutput ==
  /\ run.adjusted_data = NoOutput /\ run.env_table = NoOutput
  /\ run.pie_chart = NoOutput /\ run.bar_chart = NoOutput
  /\ run.total_emissions = NoOutput /\ run.total_tax_cost = NoOutput
  /\ run.cost_table = NoOutput /\ run.cost_chart = NoOutput
  /\ run.regulations = NoOutput

\* the scenario multipliers in tenths, as the specification tabulates them
TransportFactorTenths(t) == CASE t = "Air" -> 15 [] t = "Sea" -> 8 [] OTHER -> 10
EnergyFactorTenths(e) == IF e = "Renewable" THEN 7 ELSE 12

\* a is the row-by-row image of b under transport mode t and energy source e
IsAdjustmentOf(a, b, t, e) ==
  /\ a.columns = b.columns
  /\ a.nrows = b.nrows
  /\ a.series[PRODUCT_NAME] = b.series[PRODUCT_NAME]
  /\ a.series[RAW_MATERIAL] = b.series[RAW_MATERIAL]
  /\ \A i \in 1..b.nrows :
       LET raw == b.series[RAW_MATERIAL].cells[i].v
           prod == b.series[PRODUCTION].cells[i].v
           logi == b.series[LOGISTICS].cells[i].v
       IN /\ \A c \in Range(NumericColumns) : ~a.series[c].cells[i].nan
          /\ a.series[LOGISTICS].cells[i].v * 10 = logi * TransportFactorTenths(t)
          /\ a.series[PRODUCTION].cells[i].v * 10 = prod * EnergyFactorTenths(e)
          /\ a.series[TOTAL_KG].cells[i].v * 10 =
               raw * 10 + prod * EnergyFactorTenths(e) + logi * TransportFactorTenths(t)

\* C1: after every Environmental and every Financial recomputation the
\* table held in data has exactly the columns and values it was loaded with.
C1_BaseNeverMutated ==
  run.view \in {ENV, FIN} => run.data = run.loaded

C3_AdjustRowByRow ==
  (run.view = ENV /\ run.loaded[1] \in WellFormedFrames)
    => /\ run.adjusted_data # NoOutput
       /\ IsAdjustmentOf(run.adjusted_data[1], run.loaded[1], transport_type, energy_source)
       /\ run.env_table = run.adjusted_data

\* the documented scenario: 10, 20, 5 under Air and Renewable gives
\* 10, 14, 7.5 and 31.5
C3_Witness ==
  /\ run.view = ENV /\ run.loaded = Some(SampleFrame)
  /\ transport_type = "Air" /\ energy_source = "Renewable"
  /\ run.adjusted_data # NoOutput
  /\ run.adjusted_data[1].series[RAW_MATERIAL].cells[1] = Num(100000)
  /\ run.adjusted_data[1].series[PRODUCTION].cells[1] = Num(140000)
  /\ run.adjusted_data[1].series[LOGISTICS].cells[1] = Num(75000)
  /\ run.adjusted_data[1].series[TOTAL_KG].cells[1] = Num(315000)

RowTotalIsSum(df, i) ==
  df.series[TOTAL_KG].cells[i].v =
    df.series[RAW_MATERIAL].cells[i].v + df.series[PRODUCTION].cells[i].v
      + df.series[LOGISTICS].cells[i].v

\* C4: in the adjusted table of the Environmental view and in the table
\* the Financial view prices, every row's total footprint is the sum of the
\* row's three stage values, for every loadable file.
C4_TotalIsSumOfStages ==
  run.loaded # NoOutput /\ run.loaded[1] \in WellFormedFrames =>
    /\ run.view = ENV =>
         \A i \in 1..run.adjusted_data[1].nrows : RowTotalIsSum(run.adjusted_data[1], i)
    /\ run.view = FIN =>
         \A i \in 1..run.data[1].nrows : RowTotalIsSum(run.data[1], i)

RECURSIVE SumOver(_, _)
SumOver(f, n) == IF n = 0 THEN 0 ELSE f[n] + SumOver(f, n - 1)

\* C5: the Cost Calculator gives each row tons = total / 1000 and
\* tax = tons * rate, and the two totals are the sums of those row values.
C5_CostsAndTotals ==
  (run.view = FIN /\ run.loaded[1] \in WellFormedFrames)
    => LET d == run.data[1]
           kg == [i \in 1..d.nrows |-> run.loaded[1].series[TOTAL_KG].cells[i].v]
           tons == [i \in 1..d.nrows |-> d.series[TOTAL_TONS].cells[i].v]
           tax == [i \in 1..d.nrows |-> d.series[CARBON_TAX].cells[i].v]
       IN /\ \A i \in 1..d.nrows : tons[i] * 1000 = kg[i] /\ tax[i] = tons[i] * carbon_tax_rate
          /\ run.total_emissions = Some(SumOver(tons, d.nrows))
          /\ run.total_tax_cost = Some(SumOver(tax, d.nrows))
          /\ run.cost_table = Some(SelectColumns(d, <<PRODUCT_NAME, TOTAL_TONS, CARBON_TAX>>))

\* two rows priced at a rate other than the slider's default
C5_Witness ==
  /\ run.view = FIN /\ run.loaded # NoOutput /\ run.loaded[1].nrows = 2
  /\ run.loaded[1] \in WellFormedFrames
  /\ carbon_tax_rate = TaxMax
  /\ run.total_tax_cost # NoOutput /\ run.total_tax_cost[1] > 0

SourceUnavailable(f) ==
  \/ f.kind \in {"missing", "unparseable"}
  \/ f.frame.nrows = 0
  \/ Len(f.frame.columns) = 0

C8_SchemaViolationHalts ==
  (run.loaded # NoOutput /\ run.loaded[1] \in SchemaDefectFrames)
    => /\ run.outcome \in {"DataUnavailable", "exception"}
       /\ run.errors # {}
       /\ run.adjusted_data = NoOutput
       /\ run.total_emissions = NoOutput
       /\ run.total_tax_cost = NoOutput

\* C9: two Environmental recomputations on the same table with the same
\* transport mode and energy source give the same adjusted table, category
\* breakdown and per-product totals, whatever the export ratios are.
C9_ExportRatioInert ==
  [][(/\ run.view = ENV /\ run'.view = ENV
      /\ run'.loaded = run.loaded
      /\ transport_type' = transport_type
      /\ energy_source' = energy_source)
     => (/\ run'.adjusted_data = run.adjusted_data
         /\ run'.env_table = run.env_table
         /\ run'.pie_chart = run.pie_chart
         /\ run'.bar_chart = run.bar_chart)]_vars

\* a recomputation with the export slider moved off its default
C9_Witness ==
  /\ run.view = ENV /\ run.adjusted_data # NoOutput /\ run.pie_chart # NoOutput
  /\ export_ratio = ExportMax
  /\ run.loaded[1].nrows > 0
  /\ \E i \in 1..run.loaded[1].nrows :
       run.loaded[1].series[LOGISTICS].dtype = "float64"
       /\ run.loaded[1].series[LOGISTICS].cells[i].v > 0

StartIsTrue(ss) == "start" \in DOMAIN ss /\ ss["start"]

\* C10: the start flag begins false and never returns to false; a run
\* that finds it false stops at the landing page, loads nothing and renders
\* no view, the run of the button click included.
C10_LandingGate ==
  /\ [](run.start_at_check = Some(FALSE)
          => /\ run.outcome = "landing"
             /\ run.loaded = NoOutput /\ run.data = NoOutput
             /\ cache = EmptyCache
             /\ run.view = "none" /\ NoViewOutput)
  /\ [](run.button => (run.outcome = "landing" /\ StartIsTrue(session_state)))
  /\ [][(app = "clear_dashboard" /\ run.outcome = "none")
          => run'.start_at_check = Some(FALSE)]_vars
  /\ [][StartIsTrue(session_state) => StartIsTrue(session_state')]_vars

\* the run of the button click: the flag is set and the landing page shown
C10_Witness ==
  /\ run.button /\ run.outcome = "landing"
  /\ StartIsTrue(session_state)

====
